---- MODULE Spec2Model ----
(***************************************************************************)
(* The per-chat workflow orchestrator of the WhatsForDinner bot:           *)
(* cmd/bot/main.go (command handlers, callback handlers, default handler)  *)
(* driven by the update loop of the telegram package (Bot.Start).          *)
(*                                                                         *)
(* Every handler is one action: the whole closure, from its first call to  *)
(* its return.  The calls a handler makes on its collaborators (stores,    *)
(* Advisor, transport) are recorded, in program order, in cur.log.         *)
(***************************************************************************)
EXTENDS Integers, Sequences, FiniteSets, TLC

VARIABLES
    states,      \* stateManager: chat id -> conversational state (a partial map)
    fridge,      \* fridgeService: chat id -> (ingredient name -> quantity)
    pool,        \* suggestService: the suggested dishes, in creation order
    votes,       \* pollService: chat id -> the stored vote record
    faultsLeft,  \* how many more collaborator calls may fail
    handled,     \* how many updates the loop has taken from the channel
    inflight,    \* the updates taken whose handling has not returned
    offered,     \* ids of the suggestions some /dinner run has put in an option list
    cur          \* once handling returns: the update, the handler that ran, its calls

vars == <<states, fridge, pool, votes, faultsLeft, handled, inflight, offered, cur>>

----------------------------------------------------------------------------
(* Bounds *)

\* the updates one behaviour handles
MaxUpdates == 2
\* the largest pool a specification starts from (a durable store outlives the process)
MaxPool == 9
\* collaborator calls that may fail in one behaviour
MaxFaults == 1

(* Program constants *)

\* aiSuggestionCount := 4
DesiredTotal == 4
\* if aiSuggestionCount < 2 { aiSuggestionCount = 2 }
MinAISuggestions == 2
\* len(text) < 30
MaxIngredientTextLen == 30
\* the transport's ceiling on the options of one poll
PollOptionCeiling == 10

----------------------------------------------------------------------------
(* The universe of inputs *)

Chats == {1, 2}

\* pkg/state: the conversational states; a chat with no entry reads as idle
StateIdle == "idle"
StateAddingIngredients == "adding_ingredients"
StateAddingPhotos == "adding_photos"
StateSuggestingDish == "suggesting_dish"
Modes == {StateIdle, StateAddingIngredients, StateAddingPhotos, StateSuggestingDish}

NoQuantity == ""

\* the dish a user types after /suggest, and the names the pool starts with
TypedDish == "Carbonara"
DishNames ==
    <<"Carbonara", "Lasagna", "Borscht", "Pelmeni", "Risotto", "Goulash",
      "Paella", "Ramen", "Tacos", "Moussaka", "Pierogi", "Shakshuka">>

\* the names of the Advisor's candidates, in the order it returns them
AINames == <<"AI1", "AI2", "AI3", "AI4">>

Min(a, b) == IF a < b THEN a ELSE b
Max(a, b) == IF a > b THEN a ELSE b

----------------------------------------------------------------------------
(* The collaborators: pkg/state, pkg/fridge, pkg/suggest, pkg/poll.         *)
(* Each operator is the value or the new store of one call that succeeds.  *)

\* stateManager.GetState: the chat's entry, idle when it has none
GetState(c) == IF c \in DOMAIN states THEN states[c] ELSE StateIdle

\* stateManager.SetState: the chat's entry is overwritten
SetState(st, c, s) == [x \in DOMAIN st \cup {c} |-> IF x = c THEN s ELSE st[x]]

\* stateManager.ClearState: the chat's entry is removed
ClearState(st, c) == [x \in DOMAIN st \ {c} |-> st[x]]

\* fridgeService.ListIngredients: the names stored for the chat
ListIngredients(fr, c) == DOMAIN fr[c]

\* an insert that keeps the entry a name already has
AddIngredientOnce(fr, c, name, quantity) ==
    [fr EXCEPT ![c] = [n \in DOMAIN fr[c] \cup {name} |->
                          IF n \in DOMAIN fr[c] THEN fr[c][n] ELSE quantity]]

\* fridgeService.AddIngredient: an upsert keyed by (chat, name)
AddIngredient(fr, c, name, quantity) ==
    [fr EXCEPT ![c] = [n \in DOMAIN fr[c] \cup {name} |->
                          IF n = name THEN quantity ELSE fr[c][n]]]

\* fridgeService.ResetFridge: every ingredient of the chat is removed
ResetFridge(fr, c) == [fr EXCEPT ![c] = << >>]

\* suggestService.GetUnusedSuggestions: the chat's unused dishes, oldest first
GetUnusedSuggestions(p, c) == SelectSeq(p, LAMBDA s : s.ChatID = c /\ ~s.Used)

\* suggestService.MarkAsUsed: the dish with this id becomes used
MarkAsUsed(p, id) ==
    [i \in 1..Len(p) |-> IF p[i].ID = id THEN [p[i] EXCEPT !.Used = TRUE] ELSE p[i]]

\* suggestService.AddSuggestion: a new, unused dish with a generated id
AddSuggestion(p, c, name) ==
    Append(p, [ID |-> Len(p) + 1, ChatID |-> c, Name |-> name, Used |-> FALSE])

\* pollService.CreateVote: the chat's vote record is replaced
NoVote == [open |-> FALSE, options |-> << >>]
CreateVote(v, c, options) == [v EXCEPT ![c] = [open |-> TRUE, options |-> options]]

----------------------------------------------------------------------------
(* The record of one handler run *)

\* one call on a collaborator: its name, its argument, whether it succeeded, its result
Call(op, arg, ok, res) == [op |-> op, arg |-> arg, ok |-> ok, res |-> res]

\* transport calls whose error the handlers ignore
SendMessage(text) == Call("SendMessage", text, TRUE, "")
EditMessage(text) == Call("EditMessage", text, TRUE, "")
SendKeyboard(text, buttons) == Call("SendKeyboard", text, TRUE, buttons)

\* the calls of a log that failed
Failures(log) == Cardinality({i \in 1..Len(log) : ~log[i].ok})

\* the calls of a log on one operation, in order
CallsOf(log, op) == SelectSeq(log, LAMBDA e : e.op = op)

\* what a handler returns to the loop: its calls and the stores it leaves
Ret(log, st, fr, p, v, off) ==
    [log |-> log, states |-> st, fridge |-> fr, pool |-> p, votes |-> v, offered |-> off]

----------------------------------------------------------------------------
(* The Advisor (pkg/openai) and what the environment decides in one run *)

\* openaiClient.SuggestDinnerOptions: the candidates of a reply of n dishes
AdvisorCandidates(n) == SubSeq(AINames, 1, n)

\* the ingredient lists the Advisor can return for a text or a photo
IngredientLists ==
    {<< >>, <<"Milk">>, <<"milk">>, <<"Milk", "milk">>, <<"Milk", "Milk">>}

\* dinner.CompareIngredients: the needed names the fridge does not hold
CompareIngredients(needed, fridgeNames) ==
    SelectSeq(needed, LAMBDA n : n \notin fridgeNames)

\* A call that can fail is named <<operation, k>>: k is the id MarkAsUsed is called
\* with, the position of an AddIngredient call in its loop, and 0 otherwise.  A
\* handler run is given the set of its calls that fail.
Fails(failed, op) == <<op, 0>> \in failed

----------------------------------------------------------------------------
(* commandHandlers["dinner"] *)

\* the same count without the floor of two
UnclampedCount(u) == IF u > 0 THEN DesiredTotal - u ELSE DesiredTotal

\* how many candidates the run asks the Advisor for, given u unused suggestions
AiSuggestionCount(u) ==
    IF u > 0
    THEN IF DesiredTotal - u < MinAISuggestions
         THEN MinAISuggestions
         ELSE DesiredTotal - u
    ELSE DesiredTotal

\* the same merge with the Advisor's candidates written first
AIFirstOptions(userSuggestions, aiSuggestions) ==
    aiSuggestions \o [i \in 1..Len(userSuggestions) |-> userSuggestions[i].Name]

\* options[i] = suggestion.Name for the user suggestions, then
\* options[len(userSuggestions) + i] = name for the Advisor's candidates
PollOptions(userSuggestions, aiSuggestions) ==
    [i \in 1..(Len(userSuggestions) + Len(aiSuggestions)) |->
        IF i <= Len(userSuggestions)
        THEN userSuggestions[i].Name
        ELSE aiSuggestions[i - Len(userSuggestions)]]

\* the loop over userSuggestions: one MarkAsUsed call each, an error only logged
MarkCalls(userSuggestions, failed) ==
    [i \in 1..Len(userSuggestions) |->
        Call("MarkAsUsed", userSuggestions[i].ID,
             <<"MarkAsUsed", userSuggestions[i].ID>> \notin failed, "")]

\* the pool after that loop: the dishes whose MarkAsUsed call succeeded are used
PoolAfterMarks(p, userSuggestions, failed) ==
    [i \in 1..Len(p) |->
        IF /\ \E j \in 1..Len(userSuggestions) : userSuggestions[j].ID = p[i].ID
           /\ <<"MarkAsUsed", p[i].ID>> \notin failed
        THEN MarkAsUsed(p, p[i].ID)[i]
        ELSE p[i]]

\* the run stops after a failed Advisor call only when there is no user suggestion
StopsOnAdvisorError(aiOK, userSuggestions) == ~aiOK /\ Len(userSuggestions) = 0

\* a run that goes on to the poll whatever the sources gave
NeverStops(aiSuggestions, userSuggestions) == FALSE

\* the run stops when both sources are empty
StopsOnNoOptions(aiSuggestions, userSuggestions) ==
    Len(aiSuggestions) = 0 /\ Len(userSuggestions) = 0

\* a run that takes no fridge for empty
NeverEmpty(ingredients) == FALSE

\* if len(ingredients) == 0
FridgeIsEmpty(ingredients) == Cardinality(ingredients) = 0

\* a fetch whose result is used although the call failed
SuggestionsDespiteError(p, c, unusedOK) == GetUnusedSuggestions(p, c)

\* userSuggestions, err := GetUnusedSuggestions(chatID); on an error the run goes
\* on with userSuggestions = []*models.SuggestedDish{}
UserSuggestions(p, c, unusedOK) ==
    IF unusedOK THEN GetUnusedSuggestions(p, c) ELSE << >>

DinnerHandler(c, aiN, failed) ==
    LET ingredients == ListIngredients(fridge, c)
        same(log) == Ret(log, states, fridge, pool, votes, offered)
    IN
    IF Fails(failed, "ListIngredients")
    THEN same(<<Call("ListIngredients", c, FALSE, {}),
                SendMessage("error: retrieve fridge contents")>>)
    ELSE IF FridgeIsEmpty(ingredients)
    THEN same(<<Call("ListIngredients", c, TRUE, ingredients),
                SendMessage("fridge is empty")>>)
    ELSE
    LET unusedOK == ~Fails(failed, "GetUnusedSuggestions")
        aiOK == ~Fails(failed, "SuggestDinnerOptions")
        pollOK == ~Fails(failed, "CreatePoll")
        voteOK == ~Fails(failed, "CreateVote")
        userSuggestions == UserSuggestions(pool, c, unusedOK)
        aiSuggestionCount == AiSuggestionCount(Len(userSuggestions))
        aiSuggestions == IF aiOK THEN AdvisorCandidates(Min(aiN, aiSuggestionCount)) ELSE << >>
        asked == <<Call("ListIngredients", c, TRUE, ingredients),
                   SendMessage("thinking about dinner options"),
                   Call("GetUnusedSuggestions", c, unusedOK, userSuggestions),
                   Call("SuggestDinnerOptions", aiSuggestionCount, aiOK, aiSuggestions)>>
    IN
    IF StopsOnAdvisorError(aiOK, userSuggestions)
    THEN same(Append(asked, EditMessage("no dinner suggestions right now")))
    ELSE IF StopsOnNoOptions(aiSuggestions, userSuggestions)
    THEN same(Append(asked, EditMessage("no suitable dishes")))
    ELSE
    LET options == PollOptions(userSuggestions, aiSuggestions)
        marked == PoolAfterMarks(pool, userSuggestions, failed)
        folded == offered \cup {userSuggestions[i].ID : i \in 1..Len(userSuggestions)}
        built == asked \o MarkCalls(userSuggestions, failed)
                   \o <<EditMessage("dinner suggestions"),
                        Call("CreatePoll", options, pollOK, "")>>
    IN
    IF ~pollOK
    THEN Ret(Append(built, SendMessage("error: create poll")),
             states, fridge, marked, votes, folded)
    ELSE Ret(built \o <<Call("CreateVote", options, voteOK, ""),
                        SendMessage("please vote")>>,
             states, fridge, marked,
             IF voteOK THEN CreateVote(votes, c, options) ELSE votes,
             folded)

----------------------------------------------------------------------------
(* commandHandlers["sync_fridge"], ["fridge"], ["show_fridge"], ["start"] *)

\* stateManager.SetState(chatID, state.StateAddingIngredients)
SyncFridgeEnters == StateAddingIngredients

\* the same handler writing one state for the whole bot instead of one per chat
SyncFridgeGlobalState(c, failed) ==
    IF Fails(failed, "ResetFridge")
    THEN Ret(<<Call("ResetFridge", c, FALSE, ""), SendMessage("error: reset fridge")>>,
             states, fridge, pool, votes, offered)
    ELSE Ret(<<Call("ResetFridge", c, TRUE, ""),
               Call("SetState", SyncFridgeEnters, TRUE, ""),
               SendMessage("fridge reset, send ingredients")>>,
             [x \in Chats |-> SyncFridgeEnters], ResetFridge(fridge, c),
             pool, votes, offered)

\* the same handler without the return after the error message
SyncFridgeFallsThrough(c, failed) ==
    IF Fails(failed, "ResetFridge")
    THEN Ret(<<Call("ResetFridge", c, FALSE, ""), SendMessage("error: reset fridge"),
               Call("SetState", SyncFridgeEnters, TRUE, ""),
               SendMessage("fridge reset, send ingredients")>>,
             SetState(states, c, SyncFridgeEnters), fridge, pool, votes, offered)
    ELSE Ret(<<Call("ResetFridge", c, TRUE, ""),
               Call("SetState", SyncFridgeEnters, TRUE, ""),
               SendMessage("fridge reset, send ingredients")>>,
             SetState(states, c, SyncFridgeEnters), ResetFridge(fridge, c),
             pool, votes, offered)

\* the same handler writing the state before it resets the fridge
SyncFridgeStateFirst(c, failed) ==
    IF Fails(failed, "ResetFridge")
    THEN Ret(<<Call("SetState", SyncFridgeEnters, TRUE, ""),
               Call("ResetFridge", c, FALSE, ""), SendMessage("error: reset fridge")>>,
             SetState(states, c, SyncFridgeEnters), fridge, pool, votes, offered)
    ELSE Ret(<<Call("SetState", SyncFridgeEnters, TRUE, ""),
               Call("ResetFridge", c, TRUE, ""),
               SendMessage("fridge reset, send ingredients")>>,
             SetState(states, c, SyncFridgeEnters), ResetFridge(fridge, c),
             pool, votes, offered)

SyncFridgeHandler(c, failed) ==
    IF Fails(failed, "ResetFridge")
    THEN Ret(<<Call("ResetFridge", c, FALSE, ""), SendMessage("error: reset fridge")>>,
             states, fridge, pool, votes, offered)
    ELSE Ret(<<Call("ResetFridge", c, TRUE, ""),
               Call("SetState", SyncFridgeEnters, TRUE, ""),
               SendMessage("fridge reset, send ingredients")>>,
             SetState(states, c, SyncFridgeEnters), ResetFridge(fridge, c),
             pool, votes, offered)

\* the listing shared by /fridge, /show_fridge and the show_fridge button
FridgeListing(c, failed) ==
    IF Fails(failed, "ListIngredients")
    THEN <<Call("ListIngredients", c, FALSE, {}),
           SendMessage("error: retrieve fridge contents")>>
    ELSE IF Cardinality(ListIngredients(fridge, c)) = 0
    THEN <<Call("ListIngredients", c, TRUE, {}), SendMessage("fridge is empty")>>
    ELSE <<Call("ListIngredients", c, TRUE, ListIngredients(fridge, c)),
           Call("SendMessage", "fridge contents", TRUE, fridge[c])>>

FridgeHandler(c, failed) ==
    Ret(FridgeListing(c, failed), states, fridge, pool, votes, offered)

\* a /start that also resets the chat's state
StartClearsState(c) ==
    Ret(<<Call("ClearState", c, TRUE, ""), SendMessage("welcome")>>,
        ClearState(states, c), fridge, pool, votes, offered)

StartHandler(c) ==
    Ret(<<SendMessage("welcome")>>, states, fridge, pool, votes, offered)

----------------------------------------------------------------------------
(* Ingredient ingestion, shared by /add_photo and the default handler *)

\* a loop that replaces what the chat had by the names it is given
ReplaceAll(fr, c, ingredients, failed, i) ==
    [fr EXCEPT ![c] = [n \in {ingredients[j] : j \in 1..Len(ingredients)} |-> NoQuantity]]

\* for _, ingredient := range ingredients { AddIngredient(chatID, ingredient, "") }:
\* a call that fails is only logged
RECURSIVE AddAll(_, _, _, _, _)
AddAll(fr, c, ingredients, failed, i) ==
    IF i > Len(ingredients)
    THEN fr
    ELSE AddAll(IF <<"AddIngredient", i>> \in failed
                THEN fr
                ELSE AddIngredient(fr, c, ingredients[i], NoQuantity),
                c, ingredients, failed, i + 1)

AddCalls(ingredients, failed) ==
    [i \in 1..Len(ingredients) |->
        Call("AddIngredient", ingredients[i], <<"AddIngredient", i>> \notin failed, "")]

\* a photo is resolved to a URL and handed to the Advisor; a non-empty result is
\* added to the fridge.  prompt is the keyboard message the caller sends afterwards.
PhotoIngestion(st, c, ingredients, failed, prompt) ==
    LET urlOK == ~Fails(failed, "GetFileURL")
        begun == <<SendMessage("processing your photo"), Call("GetFileURL", "photo", urlOK, "")>>
        same(log) == Ret(log, st, fridge, pool, votes, offered)
    IN
    IF ~urlOK
    THEN same(Append(begun, SendMessage("could not process your photo")))
    ELSE IF Fails(failed, "ExtractIngredientsFromPhoto")
    THEN same(begun \o <<Call("ExtractIngredientsFromPhoto", "url", FALSE, << >>),
                         SendMessage("could not identify any ingredients")>>)
    ELSE IF Len(ingredients) = 0
    THEN same(begun \o <<Call("ExtractIngredientsFromPhoto", "url", TRUE, ingredients),
                         SendMessage("no ingredients in your photo")>>)
    ELSE Ret(begun \o <<Call("ExtractIngredientsFromPhoto", "url", TRUE, ingredients)>>
                   \o AddCalls(ingredients, failed)
                   \o <<EditMessage("found ingredients"), prompt>>,
             st, AddAll(fridge, c, ingredients, failed, 1), pool, votes, offered)

\* the same prompt with a cancel button next to the done button
DoneOrCancelPrompt ==
    SendKeyboard("send more photos", {"done_adding_photos", "cancel_adding_photos"})

\* the keyboards the handlers send
DonePhotosPrompt == SendKeyboard("send more photos", {"done_adding_photos"})
CancelPhotosPrompt == SendKeyboard("please send photos", {"cancel_adding_photos"})
DoneOrMorePrompt == SendKeyboard("add more or done?", {"done_adding", "add_more"})

\* a state written as a string that pkg/state does not enumerate
AddPhotoEntersUnknown == "adding_photo"

\* stateManager.SetState(chatID, state.StateAddingPhotos)
AddPhotoEnters == StateAddingPhotos

AddPhotoHandler(c, hasPhoto, ingredients, failed) ==
    LET st == SetState(states, c, AddPhotoEnters)
        set == <<Call("SetState", AddPhotoEnters, TRUE, "")>>
    IN
    IF hasPhoto
    THEN LET r == PhotoIngestion(st, c, ingredients, failed, DonePhotosPrompt)
         IN [r EXCEPT !.log = set \o r.log]
    ELSE Ret(Append(set, CancelPhotosPrompt), st, fridge, pool, votes, offered)

----------------------------------------------------------------------------
(* commandHandlers["suggest"] *)

\* the name the Advisor gives the typed dish
AdvisorDish == "Spaghetti Carbonara"

\* dishName, _ := dishInfo["name"].(string); if dishName == "" { dishName = args }
SuggestedName(infoName, args) == IF infoName = "" THEN args ELSE infoName

\* the missing ingredients, compared only when both lists are non-empty
MissingIngredients(needed, fridgeNames) ==
    IF Cardinality(fridgeNames) > 0 /\ Len(needed) > 0
    THEN CompareIngredients(needed, fridgeNames)
    ELSE << >>

\* a handler that parks the chat in suggesting_dish to wait for the dish name
SuggestAwaitsName(c, args, infoName, needed, failed) ==
    Ret(<<Call("SetState", StateSuggestingDish, TRUE, ""), SendMessage("which dish?")>>,
        SetState(states, c, StateSuggestingDish), fridge, pool, votes, offered)

SuggestHandler(c, args, infoName, needed, failed) ==
    LET same(log) == Ret(log, states, fridge, pool, votes, offered) IN
    IF args = ""
    THEN same(<<SendMessage("usage: /suggest Lasagna")>>)
    ELSE
    LET infoOK == ~Fails(failed, "GetDishInfo")
        listOK == ~Fails(failed, "ListIngredients")
        looked == <<SendMessage("looking up the dish"),
                    Call("GetDishInfo", args, infoOK, [name |-> infoName, needed |-> needed])>>
    IN
    IF ~infoOK
    THEN same(Append(looked, EditMessage("could not find information")))
    ELSE
    LET dishName == SuggestedName(infoName, args)
        fridgeNames == IF listOK THEN ListIngredients(fridge, c) ELSE {}
        missing == MissingIngredients(needed, fridgeNames)
        compared == Append(looked, Call("ListIngredients", c, listOK, fridgeNames))
    IN
    IF Fails(failed, "AddSuggestion")
    THEN same(compared \o <<Call("AddSuggestion", dishName, FALSE, ""),
                            EditMessage("could not save your suggestion")>>)
    ELSE Ret(compared \o <<Call("AddSuggestion", dishName, TRUE, ""),
                           Call("EditMessage", "thanks for suggesting", TRUE,
                                [needed |-> needed, missing |-> missing])>>,
             states, fridge, AddSuggestion(pool, c, dishName), votes, offered)

----------------------------------------------------------------------------
(* defaultHandler *)

\* the texts a user sends: what strings.Contains(text, " ") and len(text) see of each
NoText == [text |-> "", hasSpace |-> FALSE, len |-> 0]
TextInputs ==
    {[text |-> "Milk", hasSpace |-> FALSE, len |-> 4],
     [text |-> "milk and butter", hasSpace |-> TRUE, len |-> 15],
     [text |-> "Pasteurizedsemiskimmedmilkcarton", hasSpace |-> FALSE, len |-> 32]}

\* !strings.Contains(text, " ") && len(text) < 30
LooksLikeIngredient(t) == ~t.hasSpace /\ t.len < MaxIngredientTextLen

\* a photo without a command
DefaultPhoto(c, ingredients, failed) ==
    LET chatState == GetState(c) IN
    IF chatState = StateAddingIngredients \/ chatState = StateAddingPhotos
    THEN PhotoIngestion(states, c, ingredients, failed,
                        IF chatState = StateAddingIngredients
                        THEN DoneOrMorePrompt
                        ELSE DonePhotosPrompt)
    ELSE Ret(<<SendMessage("use /add_photo")>>, states, fridge, pool, votes, offered)

\* a text without a command
DefaultText(c, t, ingredients, failed) ==
    LET same(log) == Ret(log, states, fridge, pool, votes, offered) IN
    IF GetState(c) = StateAddingIngredients
    THEN IF Fails(failed, "ParseIngredientsFromText")
         THEN same(<<Call("ParseIngredientsFromText", t.text, FALSE, << >>),
                     SendMessage("could not understand the ingredients")>>)
         ELSE IF Len(ingredients) = 0
         THEN same(<<Call("ParseIngredientsFromText", t.text, TRUE, ingredients),
                     SendMessage("no ingredients in your message")>>)
         ELSE Ret(<<Call("ParseIngredientsFromText", t.text, TRUE, ingredients)>>
                      \o AddCalls(ingredients, failed)
                      \o <<SendMessage("added ingredients"), DoneOrMorePrompt>>,
                  states, AddAll(fridge, c, ingredients, failed, 1), pool, votes, offered)
    ELSE IF GetState(c) = StateSuggestingDish
    THEN Ret(<<Call("ClearState", c, TRUE, ""), SendMessage("use /suggest with a dish name")>>,
             ClearState(states, c), fridge, pool, votes, offered)
    ELSE IF LooksLikeIngredient(t)
    THEN IF <<"AddIngredient", 1>> \in failed
         THEN same(<<Call("AddIngredient", t.text, FALSE, ""),
                     SendMessage("could not add the ingredient")>>)
         ELSE Ret(<<Call("AddIngredient", t.text, TRUE, ""), SendMessage("added")>>,
                  states, AddIngredient(fridge, c, t.text, NoQuantity), pool, votes, offered)
    ELSE same(<< >>)

DefaultHandler(u, ingredients, failed) ==
    IF u.type # "message"
    THEN Ret(<< >>, states, fridge, pool, votes, offered)
    ELSE IF u.photo /\ ~u.isCommand
    THEN DefaultPhoto(u.chat, ingredients, failed)
    ELSE IF u.text.text # "" /\ ~u.isCommand
    THEN DefaultText(u.chat, u.text, ingredients, failed)
    ELSE Ret(<< >>, states, fridge, pool, votes, offered)

----------------------------------------------------------------------------
(* callbackHandlers *)

\* what every button handler does to the message the button was on
Acknowledge(answer, edited) ==
    <<Call("AnswerCallbackQuery", answer, TRUE, ""),
      Call("EditMessageText", edited, TRUE, {})>>

\* the same handler without the ClearState call
DoneAddingKeepsState(c) ==
    Ret(Acknowledge("fridge is now updated", "fridge update complete"),
        states, fridge, pool, votes, offered)

DoneAddingCallback(c) ==
    Ret(<<Call("ClearState", c, TRUE, "")>>
            \o Acknowledge("fridge is now updated", "fridge update complete"),
        ClearState(states, c), fridge, pool, votes, offered)

AddMoreCallback(c) ==
    Ret(Acknowledge("send more ingredients", "please send more ingredients"),
        states, fridge, pool, votes, offered)

ShowFridgeCallback(c, failed) ==
    Ret(Acknowledge("here is your fridge", "fridge contents follow")
            \o FridgeListing(c, failed),
        states, fridge, pool, votes, offered)

DoneAddingPhotosCallback(c, failed) ==
    LET done == <<Call("ClearState", c, TRUE, "")>>
                    \o Acknowledge("fridge updated from photos", "photo processing complete")
        names == ListIngredients(fridge, c)
    IN
    Ret(IF Fails(failed, "ListIngredients")
        THEN Append(done, Call("ListIngredients", c, FALSE, {}))
        ELSE IF Cardinality(names) = 0
        THEN done \o <<Call("ListIngredients", c, TRUE, names),
                       SendMessage("fridge is still empty")>>
        ELSE done \o <<Call("ListIngredients", c, TRUE, names),
                       Call("SendMessage", "fridge contents", TRUE, fridge[c]),
                       SendMessage("you can now use /dinner")>>,
        ClearState(states, c), fridge, pool, votes, offered)

\* the same handler without the ClearState call
CancelKeepsState(c) ==
    Ret(Acknowledge("photo adding cancelled", "photo adding cancelled"),
        states, fridge, pool, votes, offered)

CancelAddingPhotosCallback(c) ==
    Ret(<<Call("ClearState", c, TRUE, "")>>
            \o Acknowledge("photo adding cancelled", "photo adding cancelled"),
        ClearState(states, c), fridge, pool, votes, offered)

\* callbackHandlers[tag](callback)
CallbackHandler(tag, c, failed) ==
    CASE tag = "done_adding" -> DoneAddingCallback(c)
      [] tag = "add_more" -> AddMoreCallback(c)
      [] tag = "show_fridge" -> ShowFridgeCallback(c, failed)
      [] tag = "done_adding_photos" -> DoneAddingPhotosCallback(c, failed)
      [] tag = "cancel_adding_photos" -> CancelAddingPhotosCallback(c)

----------------------------------------------------------------------------
(* The updates the transport delivers *)

RegisteredCommands ==
    {"start", "dinner", "fridge", "sync_fridge", "show_fridge", "add_photo", "suggest"}

\* the keys of callbackHandlers
RegisteredTags ==
    {"done_adding", "add_more", "show_fridge", "done_adding_photos", "cancel_adding_photos"}

\* the button payloads a press can carry: the registered tags and one no handler knows
CallbackData == RegisteredTags \cup {"vote_cook"}

\* the characters of the payloads, for data[:len(prefix)] == prefix
Chars ==
    [d \in CallbackData |->
        CASE d = "done_adding" -> <<"d","o","n","e","_","a","d","d","i","n","g">>
          [] d = "add_more" -> <<"a","d","d","_","m","o","r","e">>
          [] d = "show_fridge" -> <<"s","h","o","w","_","f","r","i","d","g","e">>
          [] d = "done_adding_photos" ->
                <<"d","o","n","e","_","a","d","d","i","n","g","_","p","h","o","t","o","s">>
          [] d = "cancel_adding_photos" ->
                <<"c","a","n","c","e","l","_","a","d","d","i","n","g","_","p","h","o","t","o","s">>
          [] d = "vote_cook" -> <<"v","o","t","e","_","c","o","o","k">>]

CommandUpdate(c, command, args, photo) ==
    [type |-> "message", chat |-> c, isCommand |-> TRUE, command |-> command,
     args |-> args, photo |-> photo, text |-> NoText, data |-> ""]

MessageUpdate(c, photo, text) ==
    [type |-> "message", chat |-> c, isCommand |-> FALSE, command |-> "",
     args |-> "", photo |-> photo, text |-> text, data |-> ""]

CallbackUpdate(c, data) ==
    [type |-> "callback", chat |-> c, isCommand |-> FALSE, command |-> "",
     args |-> "", photo |-> FALSE, text |-> NoText, data |-> data]

Updates ==
    UNION {
        {CommandUpdate(c, command, "", FALSE) :
            command \in (RegisteredCommands \cup {"stats"})}
        \cup {CommandUpdate(c, "suggest", TypedDish, FALSE),
              CommandUpdate(c, "add_photo", "", TRUE),
              MessageUpdate(c, TRUE, NoText),
              MessageUpdate(c, FALSE, NoText)}
        \cup {MessageUpdate(c, FALSE, t) : t \in TextInputs}
        \cup {CallbackUpdate(c, d) : d \in CallbackData}
        : c \in Chats}

----------------------------------------------------------------------------
(* Bot.Start: the update loop and its dispatch *)

\* the sets of calls that may fail in one run: no more than failures are left
FailSets(calls) == {F \in SUBSET calls : Cardinality(F) <= faultsLeft}

\* the calls named op, one per k
Faultable(ops) == {<<op, 0>> : op \in ops}

\* the loop variable outside an iteration
NoUpdate ==
    [type |-> "none", chat |-> 0, isCommand |-> FALSE, command |-> "",
     args |-> "", photo |-> FALSE, text |-> NoText, data |-> ""]
Idle == [update |-> NoUpdate, handler |-> "", log |-> << >>]

\* the handler named h, called for u, returns r
Commit(u, h, r) ==
    /\ u \in inflight
    /\ inflight' = inflight \ {u}
    /\ Failures(r.log) <= faultsLeft
    /\ faultsLeft' = faultsLeft - Failures(r.log)
    /\ states' = r.states
    /\ fridge' = r.fridge
    /\ pool' = r.pool
    /\ votes' = r.votes
    /\ offered' = r.offered
    /\ cur' = [update |-> u, handler |-> h, log |-> r.log]
    /\ UNCHANGED handled

\* update.Message != nil && update.Message.IsCommand(), and the command is this one
IsCommandFor(u, command) ==
    u.type = "message" /\ u.isCommand /\ u.command = command

\* len(data) >= len(prefix) && data[:len(prefix)] == prefix
HasPrefix(data, prefix) ==
    /\ Len(Chars[data]) >= Len(Chars[prefix])
    /\ SubSeq(Chars[data], 1, Len(Chars[prefix])) = Chars[prefix]

\* the handlers the range over callbackHandlers can stop at: a Go map is
\* ranged over in no fixed order, and the loop breaks at the first match
MatchingTags(data) == {tag \in RegisteredTags : HasPrefix(data, tag)}

RunStart(u) ==
    /\ IsCommandFor(u, "start")
    /\ Commit(u, "start", StartHandler(u.chat))

RunDinner(u) ==
    /\ IsCommandFor(u, "dinner")
    /\ \E aiN \in 0..DesiredTotal :
       \E failed \in FailSets(
              Faultable({"ListIngredients", "GetUnusedSuggestions",
                         "SuggestDinnerOptions", "CreatePoll", "CreateVote"})
              \cup {<<"MarkAsUsed", i>> : i \in 1..Len(pool)}) :
          Commit(u, "dinner", DinnerHandler(u.chat, aiN, failed))

RunFridge(u) ==
    /\ IsCommandFor(u, "fridge") \/ IsCommandFor(u, "show_fridge")
    /\ \E failed \in FailSets(Faultable({"ListIngredients"})) :
          Commit(u, u.command, FridgeHandler(u.chat, failed))

RunSyncFridge(u) ==
    /\ IsCommandFor(u, "sync_fridge")
    /\ \E failed \in FailSets(Faultable({"ResetFridge"})) :
          Commit(u, "sync_fridge", SyncFridgeHandler(u.chat, failed))

RunAddPhoto(u) ==
    /\ IsCommandFor(u, "add_photo")
    /\ \E ingredients \in (IF u.photo THEN IngredientLists ELSE {<< >>}) :
       \E failed \in FailSets(
              IF u.photo
              THEN Faultable({"GetFileURL", "ExtractIngredientsFromPhoto"})
                   \cup {<<"AddIngredient", i>> : i \in 1..Len(ingredients)}
              ELSE {}) :
          Commit(u, "add_photo", AddPhotoHandler(u.chat, u.photo, ingredients, failed))

RunSuggest(u) ==
    /\ IsCommandFor(u, "suggest")
    /\ \E infoName \in (IF u.args = "" THEN {""} ELSE {"", AdvisorDish}),
          needed \in (IF u.args = "" THEN {<< >>} ELSE IngredientLists) :
       \E failed \in FailSets(
              IF u.args = ""
              THEN {}
              ELSE Faultable({"GetDishInfo", "ListIngredients", "AddSuggestion"})) :
          Commit(u, "suggest", SuggestHandler(u.chat, u.args, infoName, needed, failed))

RunCallback(u) ==
    /\ u.type = "callback"
    /\ \E tag \in MatchingTags(u.data) :
       \E failed \in FailSets(
              IF tag \in {"show_fridge", "done_adding_photos"}
              THEN Faultable({"ListIngredients"})
              ELSE {}) :
          Commit(u, tag, CallbackHandler(tag, u.chat, failed))

\* a press no registered tag is a prefix of: no handler runs and the loop moves on
SkipCallback(u) ==
    /\ u.type = "callback"
    /\ MatchingTags(u.data) = {}
    /\ Commit(u, "none", Ret(<< >>, states, fridge, pool, votes, offered))

\* what a run of the default handler asks of its collaborators
DefaultAsks(u) ==
    IF u.isCommand
    THEN "nothing"
    ELSE IF u.photo
    THEN IF GetState(u.chat) \in {StateAddingIngredients, StateAddingPhotos}
         THEN "photo"
         ELSE "nothing"
    ELSE IF u.text.text = ""
    THEN "nothing"
    ELSE IF GetState(u.chat) = StateAddingIngredients
    THEN "text"
    ELSE IF GetState(u.chat) # StateSuggestingDish /\ LooksLikeIngredient(u.text)
    THEN "ingredient"
    ELSE "nothing"

RunDefault(u) ==
    /\ u.type = "message"
    /\ ~(u.isCommand /\ u.command \in RegisteredCommands)
    /\ \E ingredients \in (IF DefaultAsks(u) \in {"photo", "text"}
                           THEN IngredientLists
                           ELSE {<< >>}) :
       \E failed \in FailSets(
              CASE DefaultAsks(u) = "photo" ->
                      Faultable({"GetFileURL", "ExtractIngredientsFromPhoto"})
                      \cup {<<"AddIngredient", i>> : i \in 1..Len(ingredients)}
                [] DefaultAsks(u) = "text" ->
                      Faultable({"ParseIngredientsFromText"})
                      \cup {<<"AddIngredient", i>> : i \in 1..Len(ingredients)}
                [] DefaultAsks(u) = "ingredient" -> {<<"AddIngredient", 1>>}
                [] OTHER -> {}) :
          Commit(u, "default", DefaultHandler(u, ingredients, failed))

----------------------------------------------------------------------------
(* The bot as main() builds it: the conversational states are new, the   *)
(* stores are what earlier runs of the bot left in the data directory.   *)

EmptyFridge == << >>
StockedFridge == [n \in {"Milk"} |-> NoQuantity]

\* a pool of unused suggestions, the i-th made in the chat owners[i]
StoredPool(owners) ==
    [i \in 1..Len(owners) |->
        [ID |-> i, ChatID |-> owners[i], Name |-> DishNames[i], Used |-> FALSE]]

InitWith(fr, p, faults) ==
    /\ states = << >>
    /\ fridge = fr
    /\ pool = p
    /\ votes = [c \in Chats |-> NoVote]
    /\ faultsLeft = faults
    /\ handled = 0
    /\ inflight = {}
    /\ offered = {}
    /\ cur = Idle

\* chat 1 has an ingredient and a suggestion, chat 2 has nothing yet
Init == InitWith([c \in Chats |-> IF c = 1 THEN StockedFridge ELSE EmptyFridge],
                 StoredPool(<<1>>), MaxFaults)

\* a loop that starts every handler with a go statement is always at the range
LoopAlwaysReady == TRUE

\* handler(update.Message) is a plain call: the loop is at the range statement,
\* ready for the next update, only when no handler is running
LoopReady == inflight = {}

\* for update := range updates: the loop takes the next update
Receive(u) ==
    /\ LoopReady
    /\ cur = Idle
    /\ handled < MaxUpdates
    /\ handled' = handled + 1
    /\ inflight' = inflight \cup {u}
    /\ UNCHANGED <<states, fridge, pool, votes, faultsLeft, offered, cur>>

\* continue, or the end of the loop body: the iteration is over
Continue ==
    /\ inflight = {}
    /\ cur # Idle
    /\ cur' = Idle
    /\ UNCHANGED <<states, fridge, pool, votes, faultsLeft, handled, inflight, offered>>

Start == \E u \in inflight : RunStart(u)
Dinner == \E u \in inflight : RunDinner(u)
Fridge == \E u \in inflight : RunFridge(u)
SyncFridge == \E u \in inflight : RunSyncFridge(u)
AddPhoto == \E u \in inflight : RunAddPhoto(u)
Suggest == \E u \in inflight : RunSuggest(u)
Callback == \E u \in inflight : RunCallback(u)
NoCallback == \E u \in inflight : SkipCallback(u)
Default == \E u \in inflight : RunDefault(u)

Next ==
    \/ \E u \in Updates : Receive(u)
    \/ Start
    \/ Dinner
    \/ Fridge
    \/ SyncFridge
    \/ AddPhoto
    \/ Suggest
    \/ Callback
    \/ NoCallback
    \/ Default
    \/ Continue

Spec == Init /\ [][Next]_vars

----------------------------------------------------------------------------
(* Poll construction on its own: /dinner in a chat whose fridge is stocked and *)
(* whose pool holds any number of unused suggestions up to MaxPool.            *)

DinnerUpdates == {CommandUpdate(1, "dinner", "", FALSE)}

InitPoll ==
    \E n \in 0..MaxPool :
        InitWith([c \in Chats |-> StockedFridge], StoredPool([i \in 1..n |-> 1]), MaxFaults)

NextPoll ==
    \/ \E u \in DinnerUpdates : Receive(u)
    \/ Dinner
    \/ Continue

SpecPoll == InitPoll /\ [][NextPoll]_vars

----------------------------------------------------------------------------
(* The Ingredient Store on its own: upserts with any name and any quantity, *)
(* starting from empty fridges.  cur.log keeps every call made so far.      *)

\* names that differ only in letter case, and free-text quantities
IngredientNames == {"Eggs", "eggs"}
Quantities == {NoQuantity, "6", "12"}

InitFridge == InitWith([c \in Chats |-> EmptyFridge], << >>, 0)

\* fridgeService.AddIngredient(chatID, name, quantity), a call that succeeds
Upsert(c, name, quantity) ==
    /\ handled < MaxUpdates
    /\ handled' = handled + 1
    /\ fridge' = AddIngredient(fridge, c, name, quantity)
    /\ cur' = [update |-> NoUpdate, handler |-> "AddIngredient",
               log |-> Append(cur.log,
                              Call("AddIngredient",
                                   [chat |-> c, name |-> name, quantity |-> quantity],
                                   TRUE, ""))]
    /\ UNCHANGED <<states, pool, votes, faultsLeft, inflight, offered>>

NextFridge ==
    \E c \in Chats, name \in IngredientNames, quantity \in Quantities :
        Upsert(c, name, quantity)

SpecFridge == InitFridge /\ [][NextFridge]_vars

----------------------------------------------------------------------------
(* Properties *)

\* the run cur records is a /dinner run
DinnerRan == cur.handler = "dinner"

\* the option lists the run cur records handed to bot.CreatePoll
PollsSent == CallsOf(cur.log, "CreatePoll")

\* the /dinner run of a log fetched these suggestions and got these candidates
Fetched(log) == CallsOf(log, "GetUnusedSuggestions")[1].res
Advised(log) == CallsOf(log, "SuggestDinnerOptions")[1]
AskedAdvisor(log) == Len(CallsOf(log, "SuggestDinnerOptions")) > 0

\* the ids of the suggestions a /dinner run wrote into an option list
FoldedIn(log) ==
    IF Len(CallsOf(log, "CreatePoll")) > 0
    THEN {Fetched(log)[i].ID : i \in 1..Len(Fetched(log))}
    ELSE {}

\* what one chat owns: its state, its ingredients, its suggestions, its vote record
ChatView(c) ==
    [mode |-> GetState(c),
     ingredients |-> fridge[c],
     suggestions |-> SelectSeq(pool, LAMBDA s : s.ChatID = c),
     vote |-> votes[c]]

\* a step in which a handler returns to the loop
Returns == cur = Idle /\ cur' # Idle

\* the operations a run called, and the last thing it told the user
Called(log, op) == Len(CallsOf(log, op)) > 0
LastCall(log) == log[Len(log)]

\* C1: after any sequence of updates every chat's conversational state is one of
\* the four enumerated states, and a chat that has no entry reads as idle.
C1_ModeEnumerated ==
    /\ DOMAIN states \subseteq Chats
    /\ \A c \in Chats :
        /\ GetState(c) \in {"idle", "adding_ingredients", "adding_photos", "suggesting_dish"}
        /\ c \notin DOMAIN states => GetState(c) = "idle"

\* a handler has set one chat's state while the other chat has never been seen
C1_Witness ==
    /\ cur.handler = "add_photo"
    /\ GetState(cur.update.chat) = "adding_photos"
    /\ \E c \in Chats : c \notin DOMAIN states

\* C2: at most one handler is running for a chat at any moment: the handling of
\* one update has returned before the handling of the next one starts.
C2_OneInFlightPerChat ==
    \A c \in Chats : Cardinality({u \in inflight : u.chat = c}) <= 1

\* the second update of a chat is being handled, the first has been handled
C2_Witness ==
    /\ handled = 2
    /\ \E u \in inflight : u.chat = 1 /\ u.command = "dinner"
    /\ votes[1].open

\* C3: a step changes what a chat owns (state, ingredients, suggestions with
\* their used flags, vote record) only when it is the handling of an update of
\* that very chat.
C3_ChatIsolation ==
    [][\A b \in Chats : ChatView(b)' # ChatView(b) => cur'.update.chat = b]_vars

\* chat 2 was reset and now awaits ingredients; chat 1 still has its ingredient
\* and its unused suggestion
C3_Witness ==
    /\ cur.handler = "sync_fridge"
    /\ cur.update.chat = 2
    /\ GetState(2) = StateAddingIngredients
    /\ GetState(1) = StateIdle
    /\ DOMAIN fridge[1] # {}
    /\ Len(GetUnusedSuggestions(pool, 1)) > 0

\* C4: every option list a /dinner run builds has at least two options.
C4_AtLeastTwoOptions ==
    DinnerRan => \A i \in 1..Len(PollsSent) : Len(PollsSent[i].arg) >= 2

\* C5: in every option list the fetched user suggestions come first, in creation
\* order, and the Advisor's candidates follow in the order it returned them.
C5_UserSuggestionsLead ==
    DinnerRan =>
        \A i \in 1..Len(PollsSent) :
            LET us == Fetched(cur.log)
                ai == Advised(cur.log).res
                options == PollsSent[i].arg
            IN /\ Len(options) = Len(us) + Len(ai)
               /\ \A j \in 1..Len(us) : options[j] = us[j].Name
               /\ \A j \in 1..Len(ai) : options[Len(us) + j] = ai[j]
               /\ \A j, k \in 1..Len(us) : j < k => us[j].ID < us[k].ID

\* a list with several user suggestions followed by several candidates
C5_Witness ==
    /\ DinnerRan
    /\ Len(PollsSent) = 1
    /\ Len(Fetched(cur.log)) >= 2
    /\ Len(Advised(cur.log).res) >= 2
    /\ PollsSent[1].arg[1] = "Carbonara"
    /\ PollsSent[1].arg[2] = "Lasagna"

\* C6: no option list handed to bot.CreatePoll is longer than the ceiling.
C6_WithinOptionCeiling ==
    DinnerRan => \A i \in 1..Len(PollsSent) : Len(PollsSent[i].arg) <= PollOptionCeiling

\* C7: a suggestion some /dinner run wrote into an option list is in the option
\* list of no later /dinner run.
C7_NeverOfferedAgain ==
    [][cur' # cur /\ cur'.handler = "dinner" => FoldedIn(cur'.log) \cap offered = {}]_vars

\* C8: when a /dinner run hands its option list to bot.CreatePoll, every user
\* suggestion in it has a MarkAsUsed call before that and is used in the pool,
\* whether or not the poll is then created.
C8_UsedBeforePollSent ==
    DinnerRan /\ Len(PollsSent) > 0 =>
        \A id \in FoldedIn(cur.log) :
            /\ \E i \in 1..Len(pool) : pool[i].ID = id /\ pool[i].Used
            /\ \E i, j \in 1..Len(cur.log) :
                /\ i < j
                /\ cur.log[i].op = "MarkAsUsed" /\ cur.log[i].arg = id
                /\ cur.log[j].op = "CreatePoll"

\* C9: a run that fetched u suggestions asks the Advisor for max(2, 4 - u)
\* candidates when u > 0 and for 4 when u = 0; with the single suggestion
\* "Carbonara" and an Advisor that returns the three it is asked for, the options
\* are "Carbonara", AI1, AI2, AI3.
C9_AdvisorCount ==
    DinnerRan /\ AskedAdvisor(cur.log) =>
        LET us == Fetched(cur.log)
            u == Len(us)
            ai == Advised(cur.log)
        IN /\ ai.arg = IF u > 0 THEN Max(2, 4 - u) ELSE 4
           /\ (u = 1 /\ us[1].Name = "Carbonara" /\ Len(ai.res) = 3 /\ Len(PollsSent) > 0)
                => PollsSent[1].arg = <<"Carbonara", "AI1", "AI2", "AI3">>

\* the scenario: one suggestion, three candidates asked for and returned
C9_Witness ==
    /\ DinnerRan
    /\ Len(PollsSent) = 1
    /\ Advised(cur.log).arg = 3
    /\ PollsSent[1].arg = <<"Carbonara", "AI1", "AI2", "AI3">>

\* C10: a run that fetched no user suggestion and whose Advisor call failed or
\* returned nothing calls neither bot.CreatePoll nor pollService.CreateVote and
\* ends by telling the user; no run hands bot.CreatePoll an empty list.
C10_NoDegeneratePoll ==
    DinnerRan =>
        /\ \A i \in 1..Len(PollsSent) : Len(PollsSent[i].arg) > 0
        /\ (/\ AskedAdvisor(cur.log)
            /\ Len(Fetched(cur.log)) = 0
            /\ ~Advised(cur.log).ok \/ Len(Advised(cur.log).res) = 0)
           => /\ Len(PollsSent) = 0
              /\ Len(CallsOf(cur.log, "CreateVote")) = 0
              /\ cur.log[Len(cur.log)].op = "EditMessage"

\* the Advisor call failed in a chat with no unused suggestion
C10_Witness ==
    /\ DinnerRan
    /\ AskedAdvisor(cur.log)
    /\ ~Advised(cur.log).ok
    /\ Len(Fetched(cur.log)) = 0
    /\ cur.log[Len(cur.log)].op = "EditMessage"

\* C11: /dinner in a chat whose fridge is empty calls neither the Advisor nor
\* bot.CreatePoll, marks no suggestion used and leaves the pool and the vote
\* records as they were; the run ends with the fridge-is-empty message (with the
\* error message when the read of the fridge itself failed).
C11_EmptyFridgeNoPoll ==
    [][(Returns /\ cur'.handler = "dinner" /\ DOMAIN fridge[cur'.update.chat] = {}) =>
          /\ ~Called(cur'.log, "SuggestDinnerOptions")
          /\ ~Called(cur'.log, "CreatePoll")
          /\ ~Called(cur'.log, "CreateVote")
          /\ ~Called(cur'.log, "MarkAsUsed")
          /\ pool' = pool
          /\ votes' = votes
          /\ LastCall(cur'.log).op = "SendMessage"
          /\ LastCall(cur'.log).arg =
                IF CallsOf(cur'.log, "ListIngredients")[1].ok
                THEN "fridge is empty"
                ELSE "error: retrieve fridge contents"]_vars

\* /dinner was answered with the fridge-is-empty message in a chat that has an
\* unused suggestion
C11_Witness ==
    /\ DinnerRan
    /\ DOMAIN fridge[cur.update.chat] = {}
    /\ LastCall(cur.log).arg = "fridge is empty"
    /\ Len(GetUnusedSuggestions(pool, cur.update.chat)) > 0

\* C12: a /sync_fridge run writes the state only after a ResetFridge call that
\* succeeded, so the chat's fridge is empty when the state becomes
\* adding_ingredients, whatever the fridge and the state were before; a run
\* whose ResetFridge call fails writes no state and changes nothing.
C12_ResetBeforeState ==
    [][(Returns /\ cur'.handler = "sync_fridge") =>
          LET c == cur'.update.chat
              log == cur'.log
          IN /\ \A j \in 1..Len(log) :
                    log[j].op = "SetState" =>
                        \E i \in 1..(j - 1) : log[i].op = "ResetFridge" /\ log[i].ok
             /\ IF Called(log, "SetState")
                THEN /\ DOMAIN fridge'[c] = {}
                     /\ states'[c] = "adding_ingredients"
                ELSE /\ ~log[1].ok
                     /\ states' = states
                     /\ fridge' = fridge]_vars

\* the first update was /sync_fridge in the chat that had an ingredient: its
\* fridge is empty and it awaits ingredients
C12_Witness ==
    /\ cur.handler = "sync_fridge"
    /\ cur.update.chat = 1
    /\ handled = 1
    /\ Called(cur.log, "SetState")
    /\ DOMAIN fridge[1] = {}
    /\ GetState(1) = StateAddingIngredients

\* the Advisor calls that extract ingredients, and a run in which one of them
\* failed or returned no name
ExtractionCalls(log) ==
    SelectSeq(log, LAMBDA e : e.op \in {"ExtractIngredientsFromPhoto", "ParseIngredientsFromText"})
ExtractionGaveNothing(log) ==
    /\ Len(ExtractionCalls(log)) > 0
    /\ ~ExtractionCalls(log)[1].ok \/ Len(ExtractionCalls(log)[1].res) = 0

\* C13: when the Advisor call of an ingestion event (a text, a photo, /add_photo
\* with a photo) fails or returns no name, the run ends by telling the user and
\* the chat's fridge and state are what they were before the event.
C13_FailedExtractionChangesNothing ==
    [][(Returns /\ ExtractionGaveNothing(cur'.log)) =>
          /\ LastCall(cur'.log).op = "SendMessage"
          /\ fridge' = fridge
          /\ \A c \in Chats : GetState(c)' = GetState(c)]_vars

\* a /suggest run with a dish name in which no call on the pool failed
SuggestedWithName ==
    /\ Returns
    /\ cur'.handler = "suggest"
    /\ cur'.update.args # ""
    /\ \A i \in 1..Len(cur'.log) : cur'.log[i].op = "AddSuggestion" => cur'.log[i].ok

\* C14: /suggest with a dish name appends one unused suggestion of that chat to
\* the pool whether GetDishInfo succeeds or fails; when it fails the suggestion
\* carries the name the user typed.
C14_AlwaysPersists ==
    [][SuggestedWithName =>
          /\ Len(pool') = Len(pool) + 1
          /\ SubSeq(pool', 1, Len(pool)) = pool
          /\ pool'[Len(pool')].ChatID = cur'.update.chat
          /\ ~pool'[Len(pool')].Used
          /\ ~CallsOf(cur'.log, "GetDishInfo")[1].ok
                => pool'[Len(pool')].Name = cur'.update.args]_vars

\* C15: when the loop has finished with a button press, an AnswerCallbackQuery
\* call was made for it, also when no registered tag matched the press.
C15_PressAcknowledged ==
    cur.update.type = "callback" => Called(cur.log, "AnswerCallbackQuery")

\* a text or a photo without a command was handled in a chat that was awaiting
\* ingredients or photos
IngestionInput ==
    /\ Returns
    /\ cur'.update.type = "message"
    /\ ~cur'.update.isCommand
    /\ cur'.update.photo \/ cur'.update.text.text # ""
    /\ GetState(cur'.update.chat) \in {StateAddingIngredients, StateAddingPhotos}

\* C16: a text or a photo without a command that arrives while the chat awaits
\* ingredients or photos leaves the state as it was and, when no call of the run
\* fails, is handed to the Advisor; each name the Advisor returns is then in the
\* chat's fridge and the run ends with a keyboard prompt.
C16_ConsumedAsIngredients ==
    [][IngestionInput =>
          LET log == cur'.log IN
          /\ \A c \in Chats : GetState(c)' = GetState(c)
          /\ Failures(log) = 0 =>
                /\ Len(ExtractionCalls(log)) = 1
                /\ Len(ExtractionCalls(log)[1].res) > 0 =>
                      /\ \A i \in 1..Len(ExtractionCalls(log)[1].res) :
                            ExtractionCalls(log)[1].res[i] \in DOMAIN fridge'[cur'.update.chat]
                      /\ LastCall(log).op = "SendKeyboard"
                      /\ LastCall(log).res # {}]_vars

\* /add_photo came with a photo and the Advisor returned names for it
PhotoCommandExtracted ==
    /\ cur.handler = "add_photo"
    /\ cur.update.photo
    /\ Len(ExtractionCalls(cur.log)) = 1
    /\ ExtractionCalls(cur.log)[1].ok
    /\ Len(ExtractionCalls(cur.log)[1].res) > 0

\* the names the run handed to AddIngredient calls that succeeded
Upserted(log) == {log[i].arg : i \in {j \in 1..Len(log) : log[j].op = "AddIngredient" /\ log[j].ok}}

\* C17 as stated: after /add_photo with a photo from which the Advisor extracts
\* names, every name is in the chat's fridge, the state is adding_photos, and
\* the prompt offers a done button and a cancel button.
C17_DoneAndCancelOffered ==
    (PhotoCommandExtracted /\ Failures(cur.log) = 0) =>
        /\ \A i \in 1..Len(ExtractionCalls(cur.log)[1].res) :
              ExtractionCalls(cur.log)[1].res[i] \in DOMAIN fridge[cur.update.chat]
        /\ GetState(cur.update.chat) = "adding_photos"
        /\ LastCall(cur.log).op = "SendKeyboard"
        /\ {"done_adding_photos", "cancel_adding_photos"} \subseteq LastCall(cur.log).res

\* C17 amended: after /add_photo with a photo from which the Advisor extracts
\* names, every name is handed to AddIngredient and those whose call succeeded
\* are in the chat's fridge with an empty quantity, the state is adding_photos,
\* and the prompt offers the done button only.
C17_DoneOffered ==
    PhotoCommandExtracted =>
        /\ Len(CallsOf(cur.log, "AddIngredient")) = Len(ExtractionCalls(cur.log)[1].res)
        /\ \A i \in 1..Len(ExtractionCalls(cur.log)[1].res) :
              CallsOf(cur.log, "AddIngredient")[i].arg = ExtractionCalls(cur.log)[1].res[i]
        /\ \A n \in Upserted(cur.log) :
              n \in DOMAIN fridge[cur.update.chat] /\ fridge[cur.update.chat][n] = ""
        /\ GetState(cur.update.chat) = "adding_photos"
        /\ LastCall(cur.log).op = "SendKeyboard"
        /\ LastCall(cur.log).res = {"done_adding_photos"}

\* two names were extracted from the photo of the command and both are stored
C17_Witness ==
    /\ PhotoCommandExtracted
    /\ ExtractionCalls(cur.log)[1].res = <<"Milk", "milk">>
    /\ {"Milk", "milk"} \subseteq DOMAIN fridge[cur.update.chat]
    /\ LastCall(cur.log).op = "SendKeyboard"

\* a press with this payload was handled in a chat that was in this state
Pressed(data, before) ==
    /\ Returns
    /\ cur'.update.type = "callback"
    /\ cur'.update.data = data
    /\ GetState(cur'.update.chat) = before

\* the run answered the press and edited the message to one without buttons
AnsweredAndStripped(log) ==
    /\ Called(log, "AnswerCallbackQuery")
    /\ Called(log, "EditMessageText")
    /\ CallsOf(log, "EditMessageText")[1].res = {}

\* C18: a press of done_adding in a chat that awaits ingredients leaves the chat
\* idle, is answered, strips the buttons of the message it came from, and
\* changes no fridge.
C18_DoneAddingToIdle ==
    [][Pressed("done_adding", StateAddingIngredients) =>
          /\ \A c \in Chats : c = cur'.update.chat => GetState(c)' = "idle"
          /\ AnsweredAndStripped(cur'.log)
          /\ fridge' = fridge]_vars

\* chat 1 was reset, then done_adding was pressed: it is idle again
C18_Witness ==
    /\ cur.update.data = "done_adding"
    /\ cur.handler = "done_adding"
    /\ cur.update.chat = 1
    /\ handled = 2
    /\ DOMAIN fridge[1] = {}
    /\ GetState(1) = StateIdle

\* C19: a press of done_adding_photos or of cancel_adding_photos in a chat that
\* awaits photos leaves the chat idle and changes no fridge.
C19_PhotoButtonsToIdle ==
    [][(\/ Pressed("done_adding_photos", StateAddingPhotos)
        \/ Pressed("cancel_adding_photos", StateAddingPhotos)) =>
          /\ \A c \in Chats : c = cur'.update.chat => GetState(c)' = "idle"
          /\ fridge' = fridge]_vars

\* /add_photo stored "milk" from its photo, then cancel was pressed: the chat
\* is idle and its fridge still holds "milk"
C19_Witness ==
    /\ cur.update.data = "cancel_adding_photos"
    /\ cur.handler = "cancel_adding_photos"
    /\ handled = 2
    /\ "milk" \in DOMAIN fridge[cur.update.chat]
    /\ GetState(cur.update.chat) = StateIdle

\* C20: /suggest is dispatched to its handler whatever the chat's state is, and
\* on every path of the handler the states and the fridges are afterwards what
\* they were before.
C20_SuggestKeepsStateAndFridge ==
    [][(Returns /\ IsCommandFor(cur'.update, "suggest")) =>
          /\ cur'.handler = "suggest"
          /\ states' = states
          /\ fridge' = fridge]_vars

\* a suggestion was stored in a chat that awaits ingredients
C20_Witness ==
    /\ cur.handler = "suggest"
    /\ GetState(cur.update.chat) = StateAddingIngredients
    /\ Called(cur.log, "AddSuggestion")
    /\ CallsOf(cur.log, "AddSuggestion")[1].ok

\* C21: while the /dinner handler of one chat has not returned (it is in its
\* Advisor call), the loop can take an update of a different chat and have it
\* handled.
C21_ChatsIndependentInTime ==
    \A a, b \in Chats :
        (/\ a # b
         /\ handled < MaxUpdates
         /\ \E u \in inflight : u.chat = a /\ IsCommandFor(u, "dinner"))
        => ENABLED (\E u \in Updates : u.chat = b /\ Receive(u))

\* the upserts made so far for one name of one chat, oldest first
UpsertsOf(c, name) ==
    SelectSeq(cur.log, LAMBDA e : e.arg.chat = c /\ e.arg.name = name)

\* C22: after any sequence of upserts a chat's fridge holds one entry for each
\* name that was added to it, however often it was added, and none for any
\* other name; the entry carries the quantity of the latest upsert of that
\* name; names that differ only in letter case are separate entries.
C22_UpsertIdempotent ==
    \A c \in Chats :
        /\ DOMAIN fridge[c] = {n \in IngredientNames : Len(UpsertsOf(c, n)) > 0}
        /\ \A n \in DOMAIN fridge[c] :
              fridge[c][n] = UpsertsOf(c, n)[Len(UpsertsOf(c, n))].arg.quantity
        /\ (Len(UpsertsOf(c, "Eggs")) > 0 /\ Len(UpsertsOf(c, "eggs")) > 0)
              => Cardinality(DOMAIN fridge[c]) = 2

\* "Eggs" was added twice to chat 1 with different quantities: one entry, the
\* latest quantity
C22_Witness ==
    /\ Len(UpsertsOf(1, "Eggs")) = 2
    /\ UpsertsOf(1, "Eggs")[1].arg.quantity = "6"
    /\ UpsertsOf(1, "Eggs")[2].arg.quantity = "12"
    /\ DOMAIN fridge[1] = {"Eggs"}
    /\ fridge[1]["Eggs"] = "12"

\* C23: a press whose payload is one of the registered tags runs the handler
\* registered under that very tag and no other; a done_adding_photos press
\* never runs the done_adding handler.
C23_ExactDispatch ==
    (cur.update.type = "callback" /\ cur.update.data \in RegisteredTags) =>
        /\ cur.handler = cur.update.data
        /\ cur.update.data = "done_adding_photos" => cur.handler # "done_adding"

\* the payloads of the buttons that complete or cancel an ingestion
CompletionTags == {"done_adding", "done_adding_photos", "cancel_adding_photos"}

\* C24: a step takes a chat from a state other than idle to idle only when it is
\* the handling of a press of done_adding, done_adding_photos or
\* cancel_adding_photos in that chat; no command, text or photo does.
C24_IdleOnlyByCompletion ==
    [][\A c \in Chats :
          (GetState(c) # "idle" /\ GetState(c)' = "idle") =>
              /\ cur'.update.type = "callback"
              /\ cur'.update.data \in CompletionTags
              /\ cur'.update.chat = c]_vars

\* /add_photo stored "milk" from its photo and set adding_photos, then
\* done_adding_photos was pressed and its own handler ran: the chat is idle
C24_Witness ==
    /\ cur.update.data = "done_adding_photos"
    /\ cur.handler = "done_adding_photos"
    /\ handled = 2
    /\ "milk" \in DOMAIN fridge[cur.update.chat]
    /\ cur.update.chat \notin DOMAIN states

\* C25: a step removes a name from a chat's fridge only when it is a
\* /sync_fridge run of that chat; in every other step the names of every chat
\* stay or grow.
C25_RemovedOnlyByReset ==
    [][\A c \in Chats :
          ~(DOMAIN fridge[c] \subseteq DOMAIN fridge'[c]) =>
              /\ cur'.handler = "sync_fridge"
              /\ cur'.update.chat = c
              /\ DOMAIN fridge'[c] = {}]_vars

\* two ingestion events without a reset: the photo of /add_photo, then a photo
\* on its own, added "milk" next to the "Milk" chat 1 started with
C25_Witness ==
    /\ handled = 2
    /\ cur.handler = "default"
    /\ cur.update.photo
    /\ cur.update.chat = 1
    /\ Called(cur.log, "AddIngredient")
    /\ DOMAIN fridge[1] = {"Milk", "milk"}

\* C26: no chat is ever in suggesting_dish: /suggest takes the dish name from
\* its arguments and, without one, answers with the usage text and writes no
\* state.
C26_NeverSuggestingDish ==
    /\ \A c \in Chats : GetState(c) # "suggesting_dish"
    /\ (cur.handler = "suggest" /\ cur.update.args = "") =>
          /\ ~Called(cur.log, "SetState")
          /\ LastCall(cur.log) = SendMessage("usage: /suggest Lasagna")

\* /suggest came without a dish name as the second update of an idle chat: the
\* usage text was sent and the chat is still idle
C26_Witness ==
    /\ cur.handler = "suggest"
    /\ cur.update.args = ""
    /\ handled = 2
    /\ LastCall(cur.log).arg = "usage: /suggest Lasagna"
    /\ GetState(cur.update.chat) = StateIdle

\* C27: a /dinner run whose GetUnusedSuggestions call fails goes on with no user
\* suggestion: it asks the Advisor for four candidates, marks nothing used and,
\* when candidates come back, hands exactly them to bot.CreatePoll.  A /suggest
\* run whose ListIngredients call fails still calls AddSuggestion, reports no
\* missing ingredient, and the new unused suggestion is the last of the pool.
C27_ReadFailureDegrades ==
    /\ (DinnerRan /\ Called(cur.log, "GetUnusedSuggestions")
                  /\ ~CallsOf(cur.log, "GetUnusedSuggestions")[1].ok) =>
          /\ AskedAdvisor(cur.log)
          /\ Advised(cur.log).arg = 4
          /\ ~Called(cur.log, "MarkAsUsed")
          /\ (Advised(cur.log).ok /\ Len(Advised(cur.log).res) > 0) =>
                /\ Len(PollsSent) = 1
                /\ PollsSent[1].arg = Advised(cur.log).res
    /\ (cur.handler = "suggest" /\ Called(cur.log, "ListIngredients")
                                /\ ~CallsOf(cur.log, "ListIngredients")[1].ok) =>
          /\ Called(cur.log, "AddSuggestion")
          /\ CallsOf(cur.log, "AddSuggestion")[1].ok =>
                /\ pool[Len(pool)].Name = CallsOf(cur.log, "AddSuggestion")[1].arg
                /\ pool[Len(pool)].ChatID = cur.update.chat
                /\ ~pool[Len(pool)].Used
                /\ LastCall(cur.log).res.missing = << >>

\* the fetch failed in the chat that has an unused suggestion: the poll was
\* built from the Advisor's four candidates and the suggestion is still unused
C27_Witness ==
    /\ DinnerRan
    /\ Called(cur.log, "GetUnusedSuggestions")
    /\ ~CallsOf(cur.log, "GetUnusedSuggestions")[1].ok
    /\ Len(PollsSent) = 1
    /\ PollsSent[1].arg = <<"AI1", "AI2", "AI3", "AI4">>
    /\ Len(GetUnusedSuggestions(pool, cur.update.chat)) > 0

\* a /suggest run that read the fridge and reported on the stored dish
SuggestReported ==
    /\ cur.handler = "suggest"
    /\ Called(cur.log, "ListIngredients")
    /\ CallsOf(cur.log, "ListIngredients")[1].ok
    /\ LastCall(cur.log).arg = "thanks for suggesting"

\* C28: the missing ingredients a /suggest run reports are the needed
\* ingredients, in the Advisor's order, whose names are not in the chat's
\* fridge by exact match; with an empty fridge they are all the needed ones.
C28_MissingIsNeededNotStored ==
    SuggestReported =>
        LET needed == CallsOf(cur.log, "GetDishInfo")[1].res.needed
            stored == DOMAIN fridge[cur.update.chat]
        IN /\ LastCall(cur.log).res.missing = SelectSeq(needed, LAMBDA n : n \notin stored)
           /\ stored = {} => LastCall(cur.log).res.missing = needed

\* a /sync_fridge run whose ResetFridge call failed
ResetFailed ==
    /\ Returns
    /\ cur'.handler = "sync_fridge"
    /\ ~CallsOf(cur'.log, "ResetFridge")[1].ok

\* C29: when ResetFridge fails in a /sync_fridge run, every chat's state is
\* afterwards what it was before the command (the chat does not start awaiting
\* ingredients), no SetState call is made, and the run ends with the error
\* message to the user.
C29_FailedResetKeepsState ==
    [][ResetFailed =>
          /\ states' = states
          /\ \A c \in Chats : GetState(c)' = GetState(c)
          /\ ~Called(cur'.log, "SetState")
          /\ LastCall(cur'.log) = SendMessage("error: reset fridge")]_vars

\* the reset failed in a chat that /add_photo had left awaiting photos: it
\* still awaits photos and was sent the error message
C29_Witness ==
    /\ cur.handler = "sync_fridge"
    /\ handled = 2
    /\ ~CallsOf(cur.log, "ResetFridge")[1].ok
    /\ GetState(cur.update.chat) = StateAddingPhotos
    /\ LastCall(cur.log).arg = "error: reset fridge"

====
